---- MODULE Spec2Model ----
(***************************************************************************)
(* Model of src/src/Lab_2_4_LR2.py: the LinearRegressor class (fit with    *)
(* the normal equation or with gradient descent, predict), the function    *)
(* evaluate_regression and the function one_hot_encode.                    *)
(*                                                                         *)
(* Numbers are exact rationals <<numerator, denominator>> in lowest terms  *)
(* with a positive denominator.  A vector is a sequence of rationals, a    *)
(* matrix a sequence of rows.  An array argument is a record               *)
(* [ndim, flat, mat]: a 1-D array has ndim = 1 and its data in flat, a     *)
(* 2-D array has ndim = 2 and its rows in mat.                             *)
(***************************************************************************)
EXTENDS Integers, Sequences, FiniteSets, TLC

(* ---------------------------- bounds ----------------------------------- *)
MaxRows == 2        \* rows of a feature matrix, length of a target vector
MaxCols == 2        \* feature columns of a 2-D feature matrix
MaxIter == 1        \* iterations argument of fit is 0..MaxIter
MaxVal == 2         \* targets, slopes, intercepts and cells are 0..MaxVal

(* ------------------------ exact rationals ------------------------------ *)
Abs(a) == IF a < 0 THEN -a ELSE a

RECURSIVE Gcd(_, _)
Gcd(a, b) == IF b = 0 THEN a ELSE Gcd(b, a % b)

Q(n, d) ==
  LET g == Gcd(Abs(n), Abs(d))
      s == IF d < 0 THEN -1 ELSE 1
  IN  <<(s * n) \div g, (s * d) \div g>>

QI(n) == <<n, 1>>
(* a + b over the least common denominator; g is Gcd(a[2], b[2]) *)
QAddOver(a, b, g) == Q(a[1] * (b[2] \div g) + b[1] * (a[2] \div g), (a[2] \div g) * b[2])
QAdd(a, b) ==
  IF a[2] = b[2] THEN Q(a[1] + b[1], a[2]) ELSE QAddOver(a, b, Gcd(a[2], b[2]))
QNeg(a) == <<-a[1], a[2]>>
QSub(a, b) == QAdd(a, QNeg(b))
(* a * b, reduced crosswise first; g is Gcd(|a[1]|, b[2]), h is Gcd(|b[1]|, a[2]) *)
QMulOver(a, b, g, h) ==
  <<(a[1] \div g) * (b[1] \div h), (a[2] \div h) * (b[2] \div g)>>
QMul(a, b) ==
  IF a[1] = 0 \/ b[1] = 0 THEN <<0, 1>>
  ELSE IF a[2] = 1 /\ b[2] = 1 THEN <<a[1] * b[1], 1>>
  ELSE QMulOver(a, b, Gcd(Abs(a[1]), b[2]), Gcd(Abs(b[1]), a[2]))
QDiv(a, b) == QMul(a, Q(b[2], b[1]))
QAbs(a) == <<Abs(a[1]), a[2]>>

RECURSIVE QSum(_)
QSum(s) == IF s = <<>> THEN QI(0) ELSE QAdd(s[1], QSum(Tail(s)))

(* ------------------------ arrays (numpy) ------------------------------- *)
(* Arr(f) is the array f with its elements computed once. *)
Arr(f) == f \o <<>>

Rows(M) == Len(M)
Cols(M) == IF M = <<>> THEN 0 ELSE Len(M[1])
Col(M, j) == Arr([i \in 1..Len(M) |-> M[i][j]])
Transpose(M) == Arr([j \in 1..Cols(M) |-> Col(M, j)])
Dot(u, v) == QSum([i \in 1..Len(u) |-> QMul(u[i], v[i])])
MatVec(M, v) == Arr([i \in 1..Len(M) |-> Dot(M[i], v)])
MatMulT(A, BT) ==
  Arr([i \in 1..Len(A) |-> Arr([j \in 1..Len(BT) |-> Dot(A[i], BT[j])])])
MatMul(A, B) == MatMulT(A, Transpose(B))
MatSub(A, B) ==
  Arr([i \in 1..Len(A) |-> Arr([j \in 1..Len(A[i]) |-> QSub(A[i][j], B[i][j])])])

(* X.reshape(-1, 1) *)
Reshape(x) == Arr([i \in 1..Len(x) |-> <<x[i]>>])
(* np.insert(X, 0, 1, axis=1) and np.c_[np.ones(rows), X] *)
PrependOnes(M) == Arr([i \in 1..Len(M) |-> <<QI(1)>> \o M[i]])
(* X[:, 1:] *)
DropFirstCol(M) == Arr([i \in 1..Len(M) |-> Tail(M[i])])

(* ------------- np.linalg.pinv, computed exactly ------------------------ *)
(* The Moore-Penrose inverse of M is the matrix whose k-th column is the   *)
(* least-squares solution of M x = e_k of minimum norm: the solution of    *)
(* the normal equations (M^T M) x = M^T e_k that is orthogonal to the null *)
(* space of M.  It is computed by Gauss-Jordan elimination.                *)
RECURSIVE SortedSeq(_)
SortedSeq(S) ==
  IF S = {} THEN <<>>
  ELSE LET lo == CHOOSE a \in S : \A b \in S : a <= b
       IN  <<lo>> \o SortedSeq(S \ {lo})

PivotRow(M, r, c) ==
  IF \E i \in r..Len(M) : M[i][c] # QI(0)
  THEN CHOOSE i \in r..Len(M) :
         M[i][c] # QI(0) /\ \A k \in r..(i - 1) : M[k][c] = QI(0)
  ELSE 0

SwapRows(M, a, b) ==
  Arr([i \in 1..Len(M) |-> IF i = a THEN M[b] ELSE IF i = b THEN M[a] ELSE M[i]])

ScaleRow(row, q) == Arr([j \in 1..Len(row) |-> QDiv(row[j], q)])

(* clear column c of every row but r, whose scaled row is P *)
EliminateWith(M, r, c, P) ==
  Arr([i \in 1..Len(M) |->
         IF i = r THEN P
         ELSE Arr([j \in 1..Len(M[i]) |-> QSub(M[i][j], QMul(M[i][c], P[j]))])])

Eliminate(M, r, c) == EliminateWith(M, r, c, ScaleRow(M[r], M[r][c]))

RECURSIVE Rref(_, _, _, _)
Rref(M, r, c, nc) ==
  IF r > Len(M) \/ c > nc THEN M
  ELSE IF PivotRow(M, r, c) = 0 THEN Rref(M, r, c + 1, nc)
  ELSE Rref(Eliminate(SwapRows(M, r, PivotRow(M, r, c)), r, c), r + 1, c + 1, nc)

PivotCol(R, i, nc) ==
  IF \E j \in 1..nc : R[i][j] # QI(0)
  THEN CHOOSE j \in 1..nc : R[i][j] # QI(0) /\ \A k \in 1..(j - 1) : R[i][k] = QI(0)
  ELSE 0

PivotCols(R, nc) == {PivotCol(R, i, nc) : i \in 1..Len(R)} \ {0}
PivotRowOf(R, j, nc) == CHOOSE i \in 1..Len(R) : PivotCol(R, i, nc) = j

(* [S | B], the rows of S followed by the rows of B *)
Augment(S, B) == Arr([i \in 1..Len(S) |-> S[i] \o B[i]])

(* from the reduced form R of [S | B] with nc unknowns and K right-hand    *)
(* sides: the solution with every free unknown 0                           *)
Particular(R, nc, K, piv) ==
  Arr([j \in 1..nc |-> Arr([k \in 1..K |->
        IF j \in piv THEN R[PivotRowOf(R, j, nc)][nc + k] ELSE QI(0)])])

(* a basis of the null space of S, one column for every free unknown *)
NullBasis(R, nc, piv, free) ==
  Arr([j \in 1..nc |-> Arr([t \in 1..Len(free) |->
        IF j = free[t] THEN QI(1)
        ELSE IF j \in piv THEN QNeg(R[PivotRowOf(R, j, nc)][free[t]])
        ELSE QI(0)])])

(* the solution C of G C = H for an invertible G *)
RightPart(R, f, K) == Arr([t \in 1..f |-> Arr([k \in 1..K |-> R[t][f + k]])])
SolveSquare(G, H) == RightPart(Rref(Augment(G, H), 1, 1, Len(G)), Len(G), Cols(H))

(* Xp less its component in the span of the columns of N *)
RemoveNullPart(Xp, N, NT) ==
  IF NT = <<>> THEN Xp
  ELSE MatSub(Xp, MatMul(N, SolveSquare(MatMulT(NT, NT), MatMul(NT, Xp))))

MinNormFrom(R, nc, K, piv) ==
  RemoveNullPart(Particular(R, nc, K, piv),
                 NullBasis(R, nc, piv, SortedSeq((1..nc) \ piv)),
                 Transpose(NullBasis(R, nc, piv, SortedSeq((1..nc) \ piv))))

PivotsThenMinNorm(R, nc, K) == MinNormFrom(R, nc, K, PivotCols(R, nc))

(* The minimum-norm solutions X of the consistent system S X = B. *)
MinNormSolve(S, B) ==
  PivotsThenMinNorm(Rref(Augment(S, B), 1, 1, Cols(S)), Cols(S), Cols(B))

Pinv(M) == MinNormSolve(MatMul(Transpose(M), M), Transpose(M))

(* ------------------------- LinearRegressor ----------------------------- *)
VARIABLES
  coefficients,   \* self.coefficients: None or a vector
  intercept,      \* self.intercept: None or a number
  call,           \* the last call made on the model, with its arguments
  outcome,        \* how that call ended: "ok" or the kind of the exception
  returned,       \* the value that call returned (<<>> when it returned None)
  input,          \* the arguments of the function or loop a specification runs
  epoch           \* passes of the loop of fit_gradient_descent completed

(* 1-D and 2-D arrays *)
Array1(x) == [ndim |-> 1, flat |-> x, mat |-> <<>>]
Array2(M) == [ndim |-> 2, flat |-> <<>>, mat |-> M]

(* None and a present value *)
None == [none |-> TRUE, v |-> <<>>]
Some(x) == [none |-> FALSE, v |-> x]

(* integer input data as numbers *)
ToQVec(x) == Arr([i \in 1..Len(x) |-> QI(x[i])])
ToQMat(M) == Arr([i \in 1..Len(M) |-> ToQVec(M[i])])

(* np.ndim(X) of a 2-D array *)
NDim2 == 2

(* exceptions: NotFitted and InvalidArgument are the two ValueErrors the   *)
(* class raises itself, ShapeError is the ValueError numpy raises for      *)
(* operands whose shapes do not fit, IndexError an index out of bounds.    *)
Raise(kind) == [exc |-> kind, val |-> <<>>]
Return(v) == [exc |-> "ok", val |-> v]

(* predict without its check that the model is fitted *)
PredictWithoutFittedCheck(c, b, X) ==
  IF X.ndim = 1
  THEN IF Len(c.v) < 2 THEN Raise("IndexError")
       ELSE Return(Arr([i \in 1..Len(X.flat) |-> QAdd(QMul(c.v[2], X.flat[i]), b.v)]))
  ELSE IF Cols(X.mat) # Len(c.v) THEN Raise("ShapeError")
       ELSE Return(Arr([i \in 1..Len(X.mat) |-> QAdd(Dot(X.mat[i], c.v), b.v)]))

(* predict reading coefficients[0] for a flat input *)
PredictFirstCoefficient(c, b, X) ==
  IF c.none \/ b.none THEN Raise("NotFitted")
  ELSE IF X.ndim = 1
  THEN IF Len(c.v) < 1 THEN Raise("IndexError")
       ELSE Return(Arr([i \in 1..Len(X.flat) |-> QAdd(QMul(c.v[1], X.flat[i]), b.v)]))
  ELSE IF Cols(X.mat) # Len(c.v) THEN Raise("ShapeError")
       ELSE Return(Arr([i \in 1..Len(X.mat) |-> QAdd(Dot(X.mat[i], c.v), b.v)]))

(* predict(self, X) on parameters c, b *)
Predict(c, b, X) ==
  IF c.none \/ b.none THEN Raise("NotFitted")
  ELSE IF X.ndim = 1
  THEN IF Len(c.v) < 2 THEN Raise("IndexError")
       ELSE Return(Arr([i \in 1..Len(X.flat) |-> QAdd(QMul(c.v[2], X.flat[i]), b.v)]))
  ELSE IF Cols(X.mat) # Len(c.v) THEN Raise("ShapeError")
       ELSE Return(Arr([i \in 1..Len(X.mat) |-> QAdd(Dot(X.mat[i], c.v), b.v)]))

(* fit_multiple(self, X, y): X is the matrix with the bias column *)
SplitBeta(beta) == [exc |-> "ok", c |-> Some(Tail(beta)), b |-> Some(beta[1])]
NormalEquation(X, XT, y) == MatVec(MatMul(Pinv(MatMul(XT, X)), XT), y)
FitMultipleOn(c, b, X, y) ==
  IF Rows(X) # Len(y) THEN [exc |-> "ShapeError", c |-> c, b |-> b]
  ELSE SplitBeta(NormalEquation(X, Transpose(X), y))
FitMultiple(c, b, X, y) == FitMultipleOn(c, b, PrependOnes(X), y)

(* X.T ** j, elementwise *)
RECURSIVE QPow(_, _)
QPow(q, j) == IF j = 0 THEN QI(1) ELSE QMul(q, QPow(q, j - 1))
ElemPow(M, j) == Arr([i \in 1..Len(M) |-> Arr([k \in 1..Len(M[i]) |-> QPow(M[i][k], j)])])

(* predictions - y with numpy broadcasting of two 1-D arrays *)
Broadcastable(p, y) == Len(p) = Len(y) \/ Len(p) = 1 \/ Len(y) = 1
ErrorVec(p, y) ==
  LET n == IF Len(p) >= Len(y) THEN Len(p) ELSE Len(y)
  IN  Arr([i \in 1..n |-> QSub(IF Len(p) = 1 THEN p[1] ELSE p[i],
                               IF Len(y) = 1 THEN y[1] ELSE y[i])])

(* gradient_w from the sum of the residuals alone *)
GradientWFromResidualSum(X, error, lr, m) ==
  Arr([j \in 1..(NDim2 - 1) |-> QMul(QDiv(QMul(QI(2), lr), QI(m)), QSum(error))])

(* gradient_w: one entry for every j in range(1, X.ndim) *)
GradientW(X, error, lr, m) ==
  Arr([j \in 1..(NDim2 - 1) |->
         QMul(QDiv(QMul(QI(2), lr), QI(m)),
              QSum(MatVec(ElemPow(Transpose(X), j), error)))])

(* gradient_b *)
GradientB(error, m) == QMul(QDiv(QI(2), QI(m)), QSum(error))

(* one pass of the loop body of fit_gradient_descent on parameters c, b *)
Update(c, b, lr, gw, gb) ==
  [exc |-> "ok",
   c |-> Arr([i \in 1..Len(c) |-> QSub(c[i], gw[1])]),
   b |-> QSub(b, QMul(lr, gb))]
Gradients(c, b, X, y, lr, m, error) ==
  IF Rows(X) # Len(error) THEN [exc |-> "ShapeError", c |-> c, b |-> b]
  ELSE Update(c, b, lr, GradientW(X, error, lr, m), GradientB(error, m))
Residuals(c, b, X, y, lr, p) ==
  IF p.exc # "ok" THEN [exc |-> p.exc, c |-> c, b |-> b]
  ELSE IF ~Broadcastable(p.val, y) THEN [exc |-> "ShapeError", c |-> c, b |-> b]
  ELSE Gradients(c, b, X, y, lr, Len(y), ErrorVec(p.val, y))
GDEpoch(c, b, X, y, lr) ==
  Residuals(c, b, X, y, lr, Predict(Some(c), Some(b), Array2(DropFirstCol(X))))

(* the loop of fit_gradient_descent from pass `epoch` on *)
RECURSIVE GDLoop(_, _, _, _, _, _, _)
GDNext(c, b, X, y, lr, ep, iterations, r) ==
  IF r.exc # "ok" THEN [exc |-> r.exc, c |-> Some(c), b |-> Some(b)]
  ELSE GDLoop(r.c, r.b, X, y, lr, ep + 1, iterations)
GDLoop(c, b, X, y, lr, ep, iterations) ==
  IF ep >= iterations THEN [exc |-> "ok", c |-> Some(c), b |-> Some(b)]
  ELSE GDNext(c, b, X, y, lr, ep, iterations, GDEpoch(c, b, X, y, lr))

(* fit_gradient_descent(self, X, y, learning_rate, iterations); rc and rb  *)
(* are the values np.random.rand draws, already multiplied by 0.01         *)
FitGradientDescent(X, y, lr, iterations, rc, rb) ==
  GDLoop(rc, rb, X, y, lr, 0, iterations)

Methods == {"least_squares", "gradient_descent"}

(* the dispatch of fit on the matrix with the column of ones *)
FitWithBias(c, b, X_with_bias, y, method, lr, iterations, rc, rb) ==
  IF method = "least_squares" THEN FitMultiple(c, b, X_with_bias, y)
  ELSE FitGradientDescent(X_with_bias, y, lr, iterations, rc, rb)

(* fit without its check of the method: an unknown one falls to the else *)
FitResultWithoutMethodCheck(c, b, X, y, method, lr, iterations, rc, rb) ==
  FitWithBias(c, b, PrependOnes(IF X.ndim = 1 THEN Reshape(X.flat) ELSE X.mat),
              y, method, lr, iterations, rc, rb)

(* fit(self, X, y, method, learning_rate, iterations) on parameters c, b *)
FitResult(c, b, X, y, method, lr, iterations, rc, rb) ==
  IF method \notin Methods THEN [exc |-> "InvalidArgument", c |-> c, b |-> b]
  ELSE FitWithBias(c, b, PrependOnes(IF X.ndim = 1 THEN Reshape(X.flat) ELSE X.mat),
                   y, method, lr, iterations, rc, rb)

(* --------------------------- inputs ------------------------------------ *)
(* One feature array and one target vector for every shape. *)
FeatureCell(i, j) == (i * j) % 3
FlatX(r) == Array1([i \in 1..r |-> FeatureCell(i, 1)])
MatX(r, k) == Array2([i \in 1..r |-> [j \in 1..k |-> FeatureCell(i, j)]])
(* a single row and the most rows; target vectors of every length *)
RowCounts == {1, MaxRows}
Xs == {FlatX(r) : r \in RowCounts} \cup {MatX(r, k) : r \in RowCounts, k \in 1..MaxCols}
Ys == {[i \in 1..r |-> i + 1] : r \in 1..MaxRows}
LearningRates == {Q(1, 8)}
(* np.random.rand() * 0.01 lies in [0, 0.01): the successive values the   *)
(* generator may hand out                                                 *)
RandStreams == {[k \in 1..(MaxCols + 1) |-> Q(s * k, 1024)] : s \in 1..2}

(* number of feature columns and of rows of an input array *)
NFeatures(X) == IF X.ndim = 1 THEN 1 ELSE Cols(X.mat)
NRows(X) == IF X.ndim = 1 THEN Len(X.flat) ELSE Len(X.mat)
AsNumbers(X) == [ndim |-> X.ndim, flat |-> ToQVec(X.flat), mat |-> ToQMat(X.mat)]

(* a call: the operation, the method argument, and np.ndim(X) and the     *)
(* number of feature columns of its argument X                            *)
CallOf(op, method, X) ==
  [op |-> op, method |-> method, ndim |-> X.ndim, nfeatures |-> NFeatures(X)]
NoCall == [op |-> "none", method |-> "", ndim |-> 0, nfeatures |-> 0]

(* LinearRegressor.__init__ *)
Init ==
  /\ coefficients = None
  /\ intercept = None
  /\ call = NoCall
  /\ outcome = "ok"
  /\ returned = <<>>
  /\ input = <<>>
  /\ epoch = 0

(* model.fit(X, y, method, lr, iterations) *)
FitOutcome(X, y, method, r) ==
  /\ coefficients' = r.c
  /\ intercept' = r.b
  /\ call' = CallOf("fit", method, X)
  /\ outcome' = r.exc
  /\ returned' = <<>>
  /\ UNCHANGED <<input, epoch>>

Fit(X, y, method, lr, iterations, rc, rb) ==
  FitOutcome(X, y, method,
             FitResult(coefficients, intercept, AsNumbers(X), ToQVec(y),
                       method, lr, iterations, rc, rb))

(* model.predict(X) *)
PredictOutcome(X, r) ==
  /\ call' = CallOf("predict", "", X)
  /\ outcome' = r.exc
  /\ returned' = r.val
  /\ UNCHANGED <<coefficients, intercept, input, epoch>>

PredictCall(X) == PredictOutcome(X, Predict(coefficients, intercept, AsNumbers(X)))

vars == <<coefficients, intercept, call, outcome, returned, input, epoch>>

FitLeastSquares ==
  \E X \in Xs, y \in Ys :
     Fit(X, y, "least_squares", Q(1, 100), 1000, <<>>, QI(0))

FitGD ==
  \E X \in Xs, y \in Ys, lr \in LearningRates, it \in 0..MaxIter :
     \E rs \in RandStreams :
        Fit(X, y, "gradient_descent", lr, it,
            SubSeq(rs, 1, NFeatures(X)), rs[NFeatures(X) + 1])

FitUnknownMethod ==
  \E X \in Xs, y \in Ys : Fit(X, y, "bogus", Q(1, 100), 1000, <<>>, QI(0))

DoPredict == \E X \in Xs : PredictCall(X)

Next == FitLeastSquares \/ FitGD \/ FitUnknownMethod \/ DoPredict

Spec == Init /\ [][Next]_vars

(* ------------- least squares on an exactly linear dataset -------------- *)
(* a fresh model fitted once on y = a*x + b over one feature column        *)
Slopes == (-1)..MaxVal
Intercepts == 0..(MaxVal + 1)
LineXs == {x \in UNION {[1..r -> 0..MaxVal] : r \in 2..(MaxRows + 1)} :
             \E i, j \in 1..Len(x) : x[i] # x[j]}
LineY(x, a, b) == [i \in 1..Len(x) |-> a * x[i] + b]
LineInputs ==
  {[X |-> X, y |-> LineY(x, a, b)] :
     <<X, x>> \in UNION {{<<Array1(x), x>>, <<Array2(Reshape(x)), x>>} : x \in LineXs},
     a \in Slopes, b \in Intercepts}
FeatureColumn(X) == IF X.ndim = 1 THEN X.flat ELSE Col(X.mat, 1)

InitLine ==
  /\ coefficients = None
  /\ intercept = None
  /\ call = NoCall
  /\ outcome = "ok"
  /\ returned = <<>>
  /\ input \in LineInputs
  /\ epoch = 0

FitLine ==
  /\ call.op = "none"
  /\ Fit(input.X, input.y, "least_squares", Q(1, 100), 1000, <<>>, QI(0))

SpecLine == InitLine /\ [][FitLine]_vars

(* ------------- the loop of fit_gradient_descent, pass by pass ---------- *)
(* The state after the parameters are initialised (line 99): input holds   *)
(* the arguments X (with the column of ones), y, learning_rate, iterations *)
GDRates == {Q(1, 8), Q(1, 4)}
Bias2D(X) == PrependOnes(IF X.ndim = 1 THEN Reshape(ToQVec(X.flat)) ELSE ToQMat(X.mat))

InitGD ==
  \E X \in Xs, y \in Ys, lr \in GDRates, it \in 0..MaxIter, rs \in RandStreams :
     /\ input = [X |-> Bias2D(X), y |-> ToQVec(y), learning_rate |-> lr, iterations |-> it]
     /\ coefficients = Some(SubSeq(rs, 1, NFeatures(X)))
     /\ intercept = Some(rs[NFeatures(X) + 1])
     /\ call = CallOf("fit", "gradient_descent", X)
     /\ outcome = "running"
     /\ returned = <<>>
     /\ epoch = 0

(* one pass: for epoch in range(iterations) *)
EpochOutcome(r) ==
  IF r.exc = "ok"
  THEN /\ coefficients' = Some(r.c)
       /\ intercept' = Some(r.b)
       /\ epoch' = epoch + 1
       /\ UNCHANGED <<call, outcome, returned, input>>
  ELSE /\ outcome' = r.exc
       /\ UNCHANGED <<coefficients, intercept, epoch, call, returned, input>>

Epoch ==
  /\ outcome = "running"
  /\ epoch < input.iterations
  /\ EpochOutcome(GDEpoch(coefficients.v, intercept.v, input.X, input.y,
                          input.learning_rate))

(* the loop is over and fit returns *)
LoopEnd ==
  /\ outcome = "running"
  /\ epoch >= input.iterations
  /\ outcome' = "ok"
  /\ UNCHANGED <<coefficients, intercept, epoch, call, returned, input>>

SpecGD == InitGD /\ [][Epoch \/ LoopEnd]_vars

(* --------------------------- one_hot_encode ---------------------------- *)
(* Cells are integers: category codes, ordered as np.unique orders them,   *)
(* and numbers; an indicator is 0 or 1.  Column indices count from 0.      *)

(* sorted(categorical_indices) *)
RECURSIVE SortAscending(_)
SortAscending(s) ==
  IF s = <<>> THEN <<>>
  ELSE LET p == CHOOSE i \in 1..Len(s) : \A j \in 1..Len(s) : s[i] <= s[j]
       IN  <<s[p]>> \o SortAscending(SubSeq(s, 1, p - 1) \o SubSeq(s, p + 1, Len(s)))

(* sorted(categorical_indices, reverse=True) *)
RECURSIVE SortDescending(_)
SortDescending(s) ==
  IF s = <<>> THEN <<>>
  ELSE LET p == CHOOSE i \in 1..Len(s) : \A j \in 1..Len(s) : s[i] >= s[j]
       IN  <<s[p]>> \o SortDescending(SubSeq(s, 1, p - 1) \o SubSeq(s, p + 1, Len(s)))

(* np.unique(categorical_column) *)
Unique(column) == SortedSeq({column[i] : i \in 1..Len(column)})
(* np.searchsorted(unique_values, v): the index of the first entry >= v *)
SearchSorted(u, v) == Cardinality({k \in 1..Len(u) : u[k] < v})
(* np.eye(k)[index] *)
EyeRow(k, index) == [j \in 1..k |-> IF j = index + 1 THEN 1 ELSE 0]

(* the indicator matrix with the last level dropped *)
OneHotDropLast(column, u, drop_first) ==
  [i \in 1..Len(column) |->
     IF drop_first
     THEN SubSeq(EyeRow(Len(u), SearchSorted(u, column[i])), 1, Len(u) - 1)
     ELSE EyeRow(Len(u), SearchSorted(u, column[i]))]

(* one_hot, after the optional one_hot[:, 1:]; u is unique_values *)
OneHot(column, u, drop_first) ==
  [i \in 1..Len(column) |->
     IF drop_first
     THEN SubSeq(EyeRow(Len(u), SearchSorted(u, column[i])), 2, Len(u))
     ELSE EyeRow(Len(u), SearchSorted(u, column[i]))]

(* np.delete(X_transformed, index, axis=1) *)
DeleteColumn(M, index) ==
  [i \in 1..Len(M) |-> SubSeq(M[i], 1, index) \o SubSeq(M[i], index + 2, Len(M[i]))]
(* np.concatenate((M[:, :index], one_hot, M[:, index:]), axis=1) *)
Concatenate(M, one_hot, index) ==
  [i \in 1..Len(M) |->
     SubSeq(M[i], 1, index) \o one_hot[i] \o SubSeq(M[i], index + 1, Len(M[i]))]

(* the body of the loop for one index *)
EncodeColumn(Xt, index, drop_first) ==
  Concatenate(DeleteColumn(Xt, index),
              OneHot(Col(Xt, index + 1), Unique(Col(Xt, index + 1)), drop_first),
              index)

RECURSIVE EncodeLoop(_, _, _)
EncodeLoop(Xt, order, drop_first) ==
  IF order = <<>> THEN Xt
  ELSE EncodeLoop(Arr(EncodeColumn(Xt, order[1], drop_first)), Tail(order), drop_first)

OneHotEncode(X, categorical_indices, drop_first) ==
  EncodeLoop(X, SortDescending(categorical_indices), drop_first)

(* inputs: matrices of EncRows rows whose columns are a column of as many  *)
(* categories as rows, the same reversed, a two-level column and a         *)
(* constant column; the indices are any list of distinct columns           *)
EncRows == MaxRows + 1
ColumnPatterns ==
  {[i \in 1..EncRows |-> i], [i \in 1..EncRows |-> EncRows - i],
   [i \in 1..EncRows |-> i % 2], [i \in 1..EncRows |-> 7]}
EncMatrices ==
  UNION {{[i \in 1..EncRows |-> [j \in 1..k |-> cols[j][i]]] :
            cols \in [1..k -> ColumnPatterns]} : k \in 1..(MaxCols + 1)}
IndexLists(k) ==
  {s \in UNION {[1..n -> 0..(k - 1)] : n \in 0..k} :
     \A i, j \in 1..Len(s) : i # j => s[i] # s[j]}

InitEncode ==
  /\ coefficients = None
  /\ intercept = None
  /\ call = NoCall
  /\ outcome = "ok"
  /\ returned = <<>>
  /\ epoch = 0
  /\ \E X \in EncMatrices, drop_first \in BOOLEAN :
        \E idx \in IndexLists(Cols(X)) :
           input = [X |-> X, categorical_indices |-> idx, drop_first |-> drop_first]

Encode ==
  /\ returned' = OneHotEncode(input.X, input.categorical_indices, input.drop_first)
  /\ call' = CallOf("one_hot_encode", "", Array2(input.X))
  /\ outcome' = "ok"
  /\ UNCHANGED <<coefficients, intercept, input, epoch>>

SpecEncode == InitEncode /\ [][Encode]_vars

(* ------------------------- evaluate_regression ------------------------- *)
(* A float is a number, the square root of a number that has no rational   *)
(* root, or one of the values numpy gives a division by zero.              *)
Num(q) == [kind |-> "num", q |-> q]
NaN == [kind |-> "nan", q |-> QI(0)]
PosInf == [kind |-> "inf", q |-> QI(0)]
NegInf == [kind |-> "-inf", q |-> QI(0)]

(* p / q on numpy floats, p >= 0: 0/0 is nan and p/0 is inf *)
FloatDiv(p, q) ==
  IF q[1] # 0 THEN Num(QDiv(p, q)) ELSE IF p[1] = 0 THEN NaN ELSE PosInf
(* 1 - f *)
OneMinus(f) ==
  IF f.kind = "num" THEN Num(QSub(QI(1), f.q))
  ELSE IF f.kind = "inf" THEN NegInf ELSE f

IsSquare(n) == \E r \in 0..n : r * r = n
Root(n) == CHOOSE r \in 0..n : r * r = n
(* np.sqrt(q), q >= 0 *)
Sqrt(q) ==
  IF IsSquare(q[1]) /\ IsSquare(q[2]) THEN Num(<<Root(q[1]), Root(q[2])>>)
  ELSE [kind |-> "sqrt", q |-> q]

SumSquares(u) == QSum([i \in 1..Len(u) |-> QMul(u[i], u[i])])
SumAbs(u) == QSum([i \in 1..Len(u) |-> QAbs(u[i])])
Diff(u, v) == Arr([i \in 1..Len(u) |-> QSub(u[i], v[i])])
Mean(u) == QDiv(QSum(u), QI(Len(u)))
Centered(u) == Arr([i \in 1..Len(u) |-> QSub(u[i], Mean(u))])

(* r_squared with the 1 - forgotten *)
RSquaredRatioOnly(RSS, TSS) == FloatDiv(RSS, TSS)

(* r_squared = 1 - (RSS/TSS) *)
RSquared(RSS, TSS) == OneMinus(FloatDiv(RSS, TSS))

(* evaluate_regression(y_true, y_pred) on arrays of the same length N > 0 *)
EvaluateRegression(y_true, y_pred) ==
  [R2 |-> RSquared(SumSquares(Diff(y_true, y_pred)), SumSquares(Centered(y_true))),
   RMSE |-> Sqrt(QMul(Q(1, Len(y_true)), SumSquares(Diff(y_true, y_pred)))),
   MAE |-> Num(QMul(Q(1, Len(y_true)), SumAbs(Diff(y_true, y_pred))))]

(* inputs: every target vector, with the predictions equal to it, all one  *)
(* above it, or the vector reversed                                        *)
Targets == UNION {[1..n -> 0..MaxVal] : n \in 1..(MaxRows + 1)}
Reverse(y) == [i \in 1..Len(y) |-> y[Len(y) + 1 - i]]
Predictions(y) == {y, [i \in 1..Len(y) |-> y[i] + 1], Reverse(y)}

InitEvaluate ==
  /\ coefficients = None
  /\ intercept = None
  /\ call = NoCall
  /\ outcome = "ok"
  /\ returned = <<>>
  /\ epoch = 0
  /\ \E y \in Targets : \E p \in Predictions(y) : input = [y_true |-> y, y_pred |-> p]

Evaluate ==
  /\ returned' = EvaluateRegression(ToQVec(input.y_true), ToQVec(input.y_pred))
  /\ call' = CallOf("evaluate_regression", "", Array1(input.y_true))
  /\ outcome' = "ok"
  /\ UNCHANGED <<coefficients, intercept, input, epoch>>

SpecEvaluate == InitEvaluate /\ [][Evaluate]_vars

(* ------------------------------ claims --------------------------------- *)
params == <<coefficients, intercept>>
Fitted == ~coefficients.none /\ ~intercept.none

(* C1: a fit call that raises leaves intercept and coefficients exactly as *)
(* they were before the call, with either method and also when the failure *)
(* happens inside the loop of gradient descent.                            *)
C1_FailedFitLeavesParameters ==
  [][(call'.op = "fit" /\ outcome' # "ok") => UNCHANGED params]_vars

(* C2: fit with a method other than least_squares and gradient_descent     *)
(* fails with InvalidArgument and leaves intercept and coefficients        *)
(* unchanged, on an unfitted and on a fitted model, for every X and y.     *)
C2_UnknownMethodRejected ==
  [][(call'.op = "fit" /\ call'.method \notin Methods)
       => (outcome' = "InvalidArgument" /\ UNCHANGED params)]_vars
C2_Witness ==
  call.op = "fit" /\ call.method = "bogus" /\ outcome = "InvalidArgument" /\ Fitted

(* C3: the model starts unfitted, and on an unfitted model every predict   *)
(* fails with NotFitted and every predict and every fit rejected for its   *)
(* method leaves both parameters undefined; so predict keeps failing with  *)
(* NotFitted after any sequence of such calls.                             *)
C3_PredictBeforeFit ==
  /\ coefficients = None /\ intercept = None
  /\ [][(coefficients = None /\ intercept = None
           /\ (call'.op = "predict" \/ (call'.op = "fit" /\ call'.method \notin Methods)))
          => /\ coefficients' = None /\ intercept' = None
             /\ call'.op = "predict" => outcome' = "NotFitted"]_vars
C3_Witness ==
  call.op = "predict" /\ call.ndim = 2 /\ outcome = "NotFitted" /\ coefficients = None

(* C4: after a successful fit on n feature columns the coefficient vector  *)
(* holds exactly n weights, and predict on a 2-D matrix with n columns     *)
(* returns one value per row.                                              *)
PredictsPerRow(n) ==
  \A r \in RowCounts :
     /\ Predict(coefficients, intercept, AsNumbers(MatX(r, n))).exc = "ok"
     /\ Len(Predict(coefficients, intercept, AsNumbers(MatX(r, n))).val) = r
C4_OneWeightPerFeature ==
  (call.op = "fit" /\ outcome = "ok")
     => (Len(coefficients.v) = call.nfeatures /\ PredictsPerRow(call.nfeatures))

(* C10: predict leaves the parameters unchanged; on a flat input it        *)
(* returns coefficients[1] * X + intercept and so returns only when the    *)
(* model holds at least two coefficients; a gradient descent fit on one    *)
(* feature column leaves one coefficient, and on a fitted model with fewer *)
(* than two coefficients predict on a flat input fails with IndexError.    *)
FlatPrediction(X) ==
  Arr([i \in 1..Len(X.flat) |->
         QAdd(QMul(coefficients.v[2], QI(X.flat[i])), intercept.v)])
C10_FlatPredictReadsSecondCoefficient ==
  [][/\ call'.op = "predict" =>
          /\ UNCHANGED params
          /\ (call'.ndim = 1 /\ outcome' = "ok") =>
                /\ Fitted /\ Len(coefficients.v) >= 2
                /\ \E X \in Xs : X.ndim = 1 /\ returned' = FlatPrediction(X)
          /\ (call'.ndim = 1 /\ Fitted /\ Len(coefficients.v) < 2) =>
                outcome' = "IndexError"
     /\ (call'.op = "fit" /\ call'.method = "gradient_descent" /\ call'.nfeatures = 1)
          => Len(coefficients'.v) = 1]_vars
C10_Witness ==
  /\ call.op = "predict" /\ call.ndim = 1 /\ outcome = "IndexError"
  /\ Fitted /\ Len(coefficients.v) = 1

(* C5: on a single-feature dataset with y = a*x + b exactly and at least   *)
(* two distinct x values, a least squares fit sets the intercept to b and  *)
(* the coefficient of the feature column (the last weight) to a, within    *)
(* 1e-6.                                                                   *)
Tolerance == Q(1, 1000000)
QLeq(p, q) == p[1] * q[2] <= q[1] * p[2]
Near(p, q) == QLeq(QAbs(QSub(p, q)), Tolerance)
IsLine(X, y, a, b) ==
  /\ Len(y) = Len(FeatureColumn(X))
  /\ \A i \in 1..Len(y) : y[i] = a * FeatureColumn(X)[i] + b
C5_RecoversLine ==
  (call.op = "fit" /\ call.method = "least_squares")
     => /\ outcome = "ok"
        /\ \A a \in Slopes, b \in Intercepts :
              IsLine(input.X, input.y, a, b)
                 => /\ Near(intercept.v, QI(b))
                    /\ Near(coefficients.v[Len(coefficients.v)], QI(a))

(* C9: in every pass of gradient descent over a dataset with one target    *)
(* per row, with the residuals computed from the parameters at the start   *)
(* of the pass and m the row count, the intercept is decreased by          *)
(* learning_rate * (2/m) * sum(residual) and every coefficient by one and  *)
(* the same step.  As stated: that step is (2*learning_rate/m) *           *)
(* sum(residual).                                                          *)
Features == DropFirstCol(input.X)
Residual(i) == QSub(QAdd(Dot(Features[i], coefficients.v), intercept.v), input.y[i])
SumResidual == QSum([i \in 1..Len(input.y) |-> Residual(i)])
TwoRateOverM == QDiv(QMul(QI(2), input.learning_rate), QI(Rows(input.X)))
PassDone == epoch' = epoch + 1 /\ Len(input.y) = Rows(input.X)
InterceptStep ==
  intercept'.v =
    QSub(intercept.v,
         QMul(input.learning_rate, QMul(QDiv(QI(2), QI(Rows(input.X))), SumResidual)))
CoefficientsStep(step) ==
  /\ Len(coefficients'.v) = Len(coefficients.v)
  /\ \A i \in 1..Len(coefficients.v) : coefficients'.v[i] = QSub(coefficients.v[i], step)
C9_StepFromResidualSum ==
  [][PassDone => (InterceptStep /\ CoefficientsStep(QMul(TwoRateOverM, SumResidual)))]_vars

(* C9 as amended: the step of the coefficients is (2*learning_rate/m) *    *)
(* the sum over the rows of residual * (1 + the sum of the row's feature   *)
(* values), that is the sum of all entries of X^T . residual with the      *)
(* column of ones included.                                                *)
WeightedResidual(i) == QMul(Residual(i), QAdd(QI(1), QSum(Features[i])))
SumWeightedResidual == QSum([i \in 1..Len(input.y) |-> WeightedResidual(i)])
C9_StepFromWeightedResiduals ==
  [][PassDone => (InterceptStep /\ CoefficientsStep(QMul(TwoRateOverM, SumWeightedResidual)))]_vars
C9_Witness ==
  /\ epoch >= 1 /\ Len(input.y) = Rows(input.X) /\ Rows(input.X) >= 2
  /\ Len(coefficients.v) = 2 /\ outcome = "running"

(* the categories of column j (counted from 1) of X, the rank of a value   *)
(* among them in sorted order, and the indicator block of a value          *)
Categories(X, j) == {X[i][j] : i \in 1..Len(X)}
Rank(X, j, v) == Cardinality({w \in Categories(X, j) : w < v})
Ones(row) == Cardinality({t \in 1..Len(row) : row[t] = 1})
ZeroOne(row) == \A t \in 1..Len(row) : row[t] \in {0, 1}
Encoded == call.op = "one_hot_encode"

(* C6: encoding one categorical column with k distinct values: without     *)
(* drop_first it becomes k columns and every row has exactly one 1, at the *)
(* rank of its category; with drop_first it becomes k-1 columns, the rows  *)
(* of the first category are all zeros and every other row has exactly one *)
(* 1; with k = 1 and drop_first it becomes no column and nothing raises.   *)
SingleColumn == Encoded /\ Len(input.categorical_indices) = 1
TheIndex == input.categorical_indices[1]
K == Cardinality(Categories(input.X, TheIndex + 1))
Width == IF input.drop_first THEN K - 1 ELSE K
Block(i) == SubSeq(returned[i], TheIndex + 1, TheIndex + Width)
RankOf(i) == Rank(input.X, TheIndex + 1, input.X[i][TheIndex + 1])
C6_SingleColumnEncoding ==
  SingleColumn =>
     /\ outcome = "ok"
     /\ Len(returned) = Len(input.X)
     /\ \A i \in 1..Len(returned) :
           /\ Len(returned[i]) = Cols(input.X) - 1 + Width
           /\ ZeroOne(Block(i))
           /\ ~input.drop_first => (Ones(Block(i)) = 1 /\ Block(i)[RankOf(i) + 1] = 1)
           /\ (input.drop_first /\ RankOf(i) = 0) => Ones(Block(i)) = 0
           /\ (input.drop_first /\ RankOf(i) > 0)
                 => (Ones(Block(i)) = 1 /\ Block(i)[RankOf(i)] = 1)
C6_Witness ==
  /\ SingleColumn /\ input.drop_first /\ K >= 3 /\ Cols(input.X) = 1
  /\ \E i \in 1..Len(returned) : Ones(returned[i]) = 0
C6_WitnessOneCategory ==
  SingleColumn /\ input.drop_first /\ K = 1 /\ Cols(returned) = Cols(input.X) - 1

(* C8: with any list of distinct column indices the result is, row by row, *)
(* the original columns in their order with every categorical column       *)
(* replaced by its indicator block and every other column kept, so it has  *)
(* (columns - categorical columns + widths of the blocks) columns; and the *)
(* input X is not modified.                                                *)
IsCategorical(j) ==
  \E t \in 1..Len(input.categorical_indices) : input.categorical_indices[t] = j - 1
BlockWidth(j) ==
  IF input.drop_first THEN Cardinality(Categories(input.X, j)) - 1
  ELSE Cardinality(Categories(input.X, j))
Indicators(i, j) ==
  [t \in 1..BlockWidth(j) |->
     IF t = Rank(input.X, j, input.X[i][j]) + (IF input.drop_first THEN 0 ELSE 1)
     THEN 1 ELSE 0]
RECURSIVE ExpectedRow(_, _)
ExpectedRow(i, j) ==
  IF j > Cols(input.X) THEN <<>>
  ELSE (IF IsCategorical(j) THEN Indicators(i, j) ELSE <<input.X[i][j]>>)
          \o ExpectedRow(i, j + 1)
RECURSIVE SumWidths(_)
SumWidths(j) ==
  IF j > Cols(input.X) THEN 0
  ELSE (IF IsCategorical(j) THEN BlockWidth(j) ELSE 0) + SumWidths(j + 1)
C8_BlocksInPlace ==
  /\ [](Encoded =>
          /\ Len(returned) = Len(input.X)
          /\ \A i \in 1..Len(returned) :
                /\ returned[i] = ExpectedRow(i, 1)
                /\ Len(returned[i]) =
                     Cols(input.X) - Len(input.categorical_indices) + SumWidths(1))
  /\ [][input' = input]_vars
C8_Witness ==
  /\ Encoded /\ Cols(input.X) = 3 /\ input.categorical_indices = <<0, 2>>
  /\ BlockWidth(1) >= 2 /\ BlockWidth(3) >= 2 /\ Cols(returned) > 3

(* C7: with the predictions equal to the true values evaluate_regression   *)
(* returns R2 = 1.0, RMSE = 0.0 and MAE = 0.0, for every non-empty y.      *)
Evaluated == call.op = "evaluate_regression"
Perfect == Evaluated /\ input.y_pred = input.y_true
Constant(y) == \A i, j \in 1..Len(y) : y[i] = y[j]
C7_PerfectPredictions ==
  Perfect => /\ returned.R2 = Num(QI(1))
             /\ returned.RMSE = Num(QI(0))
             /\ returned.MAE = Num(QI(0))

(* C7 as amended: RMSE = 0.0 and MAE = 0.0 for every non-empty y; R2 = 1.0 *)
(* when TSS is not 0, which is when y is not constant; when TSS is 0 (a    *)
(* constant y, a single element) R2 is nan, the 0/0 of numpy.              *)
C7_PerfectPredictionsUnlessConstant ==
  Perfect => /\ returned.RMSE = Num(QI(0))
             /\ returned.MAE = Num(QI(0))
             /\ ~Constant(input.y_true) => returned.R2 = Num(QI(1))
             /\ Constant(input.y_true) => returned.R2 = NaN
C7_Witness ==
  Perfect /\ Len(input.y_true) >= 3 /\ ~Constant(input.y_true) /\ returned.R2 = Num(QI(1))

====
